---- MODULE Spec2Model ----
(***************************************************************************)
(* Model of NgxSmartModalService                                           *)
(* (src/src/services/ngx-smart-modal.service.ts).                          *)
(*                                                                         *)
(* The service owns two arrays, modalStack ({id, modal} entries) and       *)
(* modalData ({data, id} entries).  Every public method is one action.     *)
(* setModalData defers its write with setTimeout; the pending callbacks    *)
(* are the FIFO queue `timers`, and RunTimer runs the oldest one.          *)
(* A modal handle is an object owned by the UI layer: the model keeps its  *)
(* two fields in `visible` and `layerPosition`, indexed by the handle.     *)
(* `last` records the most recent call: its name, arguments and result     *)
(* (and, for resetAllModalData, how many entries the array it replaced     *)
(* held).                                                                  *)
(* Sequences are 1-based here and 0-based in the source; findIndex keeps   *)
(* the source's 0-based result (-1 when nothing matches).                  *)
(***************************************************************************)
EXTENDS Integers, Sequences, FiniteSets, TLC

VARIABLES modalStack, modalData, timers, visible, layerPosition, last,
          stackView, dataView

vars == <<modalStack, modalData, timers, visible, layerPosition, last,
          stackView, dataView>>

\* ------------------------------------------------------------------ bounds
\* Longest modalStack the model builds (addModal is not taken beyond it).
MaxStack == 3
\* Most modalData entries stored or in flight: setModalData is not taken when
\* the entries of modalData and the pending callbacks together exceed it.
MaxData == 2
\* Longest modalStack under SpecData, whose operations read only the ids.
MaxRegistered == 2

\* ------------------------------------------------------------ input domains
Ids == {"m1", "m2"}
Handles == {"h1", "h2"}
DataVals == {[x |-> 1], [x |-> 2]}
LayerVals == {2, 3, 7}
\* The layer every modal starts on.
BaseLayer == CHOOSE n \in LayerVals : \A m \in LayerVals : n <= m

\* --------------------------------------------------------- JavaScript values
Null == [t |-> "null"]
False == [t |-> "false"]
True == [t |-> "true"]
NegInfinity == [t |-> "-Infinity"]
Num(n) == [t |-> "number", n |-> n]
\* A reference to the modal object h (an NgxSmartModalComponent).
Modal(h) == [t |-> "modal", h |-> h]

\* ------------------------------------------------------------- array helpers
\* Array.prototype.findIndex with the predicate o.id === id.
findIndex(arr, id) ==
    IF \E i \in 1..Len(arr) : arr[i].id = id
    THEN (CHOOSE i \in 1..Len(arr) :
             /\ arr[i].id = id
             /\ \A j \in 1..(i - 1) : arr[j].id # id) - 1
    ELSE -1

\* Array.prototype.find(o => o.id === id), coerced with !!.
found(arr, id) == \E i \in 1..Len(arr) : arr[i].id = id

\* arr.forEach(o => o.id === id ? acc = o : false): the last match wins.
RECURSIVE forEachAssign(_, _, _)
forEachAssign(arr, id, acc) ==
    IF arr = << >> THEN acc
    ELSE forEachAssign(Tail(arr), id, IF Head(arr).id = id THEN Head(arr) ELSE acc)

\* Math.max(...index): -Infinity for an empty list.
RECURSIVE MathMax(_)
MathMax(index) ==
    IF index = << >> THEN NegInfinity
    ELSE LET rest == MathMax(Tail(index))
         IN  IF rest = NegInfinity \/ Head(index) >= rest.n
             THEN Num(Head(index)) ELSE rest

\* ------------------------------------------------------------ the operations
\* Every call is made with a ModalInstance object of its own, as the modal
\* component does with addModal({id, modal}): no two entries of modalStack are
\* the same object.
\* addModal without the `return` that ends the force branch.
addModalFallsThrough(stack, modalInstance, force) ==
    LET i == findIndex(stack, modalInstance.id)
    IN  IF force /\ i > -1
        THEN Append([stack EXCEPT ![i + 1].modal = modalInstance.modal],
                    modalInstance)
        ELSE IF force THEN stack ELSE Append(stack, modalInstance)

\* addModal: with force, overwrite the first entry of that id if there is one
\* and return; without force, push.
addModal(stack, modalInstance, force) ==
    IF force
    THEN LET i == findIndex(stack, modalInstance.id)
         IN  IF i > -1
             THEN [stack EXCEPT ![i + 1].modal = modalInstance.modal]
             ELSE stack
    ELSE Append(stack, modalInstance)

getModal(stack, id) == forEachAssign(stack, id, Null)

\* getOpenedModals without the test of modal.visible.
getOpenedModalsUntested(stack, vis) == stack

\* getOpenedModals: push every entry whose modal.visible is truthy.
RECURSIVE getOpenedModals(_, _)
getOpenedModals(stack, vis) ==
    IF stack = << >> THEN << >>
    ELSE IF vis[Head(stack).modal]
         THEN <<Head(stack)>> \o getOpenedModals(Tail(stack), vis)
         ELSE getOpenedModals(Tail(stack), vis)

RECURSIVE layerPositions(_, _)
layerPositions(modals, layer) ==
    IF modals = << >> THEN << >>
    ELSE <<layer[Head(modals).modal]>> \o layerPositions(Tail(modals), layer)

\* getHigherIndex reading the layer of every modal, open or not.
getHigherIndexOfAll(stack, vis, layer) ==
    LET m == MathMax(layerPositions(stack, layer))
    IN  IF m = NegInfinity THEN NegInfinity ELSE Num(m.n + 1)

\* getHigherIndex: Math.max(...index) + 1; -Infinity + 1 is -Infinity.
getHigherIndex(stack, vis, layer) ==
    LET m == MathMax(layerPositions(getOpenedModals(stack, vis), layer))
    IN  IF m = NegInfinity THEN NegInfinity ELSE Num(m.n + 1)

getModalStackCount(stack) == Len(stack)

\* removeModal: Array.prototype.filter returns a new array, which the method
\* drops; this.modalStack is not assigned.
removeModal(stack, id) ==
    LET filtered == SelectSeq(stack, LAMBDA o : o.id = id)
    IN  stack

\* setModalData without the look-up in modalStack.
setModalDataUnchecked(stack, dataArr, data, id) ==
    [ret |-> True,
     scheduled |-> IF found(dataArr, id)
                   THEN <<[kind |-> "overwrite", data |-> data, id |-> id]>>
                   ELSE <<[kind |-> "push", data |-> data, id |-> id]>>]

\* setModalData: the result and the callback it schedules (none when no modal
\* has the id).
setModalData(stack, dataArr, data, id) ==
    IF found(stack, id)
    THEN [ret |-> True,
          scheduled |-> IF found(dataArr, id)
                        THEN <<[kind |-> "overwrite", data |-> data, id |-> id]>>
                        ELSE <<[kind |-> "push", data |-> data, id |-> id]>>]
    ELSE [ret |-> False, scheduled |-> << >>]

\* The two setTimeout callbacks.  The overwrite callback looks the entry up
\* again when it runs; with no entry left it dereferences modalData[-1], which
\* is undefined, and throws a TypeError before writing anything.
timerCallback(dataArr, t) ==
    IF t.kind = "push"
    THEN [threw |-> FALSE,
          modalData |-> Append(dataArr, [data |-> t.data, id |-> t.id])]
    ELSE LET i == findIndex(dataArr, t.id)
         IN  IF i > -1
             THEN [threw |-> FALSE,
                   modalData |-> [dataArr EXCEPT ![i + 1].data = t.data]]
             ELSE [threw |-> TRUE, modalData |-> dataArr]

\* getModalData: `data = o` stores the matching entry itself.
getModalData(dataArr, id) == forEachAssign(dataArr, id, False)

getModalStack(stack) == stack

getAllModalData(dataArr) == dataArr

\* resetModalData: the filtered array is dropped, as in removeModal.
resetModalData(dataArr, id) ==
    LET filtered == SelectSeq(dataArr, LAMBDA o : o.id = id)
    IN  dataArr

\* resetAllModalData emptying a copy instead of this.modalData.
resetAllModalDataOfCopy(dataArr) == dataArr

\* resetAllModalData: this.modalData = [] (a new array object).
resetAllModalData(dataArr) == << >>

\* What a reference handed out earlier shows now: the array it points to.
\* Only resetAllModalData replaces an array object; the array it replaces
\* keeps the contents it had.
viewContents(view, current) ==
    IF view.state = "stale" THEN view.arr ELSE current

\* ----------------------------------------------------------------- the state
TypeOK ==
    /\ Len(modalStack) <= MaxStack
    /\ \A i \in 1..Len(modalStack) :
          modalStack[i].id \in Ids /\ modalStack[i].modal \in Handles
    /\ \A i \in 1..Len(modalData) :
          modalData[i].id \in Ids /\ modalData[i].data \in DataVals
    /\ Len(modalData) + Len(timers) <= MaxData
    /\ visible \in [Handles -> BOOLEAN]
    /\ layerPosition \in [Handles -> LayerVals]

\* A fresh service: both arrays empty, nothing pending.  The modals start
\* closed, on the base layer; the UI layer moves them from there.
Init ==
    /\ modalStack = << >>
    /\ modalData = << >>
    /\ timers = << >>
    /\ visible = [h \in Handles |-> FALSE]
    /\ layerPosition = [h \in Handles |-> BaseLayer]
    /\ last = [op |-> "new"]
    /\ stackView = [state |-> "none"]
    /\ dataView = [state |-> "none"]

heap == <<visible, layerPosition>>
views == <<stackView, dataView>>

AddModal(id, h, force) ==
    /\ force \/ Len(modalStack) < MaxStack
    /\ modalStack' = addModal(modalStack, [id |-> id, modal |-> h], force)
    /\ last' = [op |-> "addModal", id |-> id, modal |-> h, force |-> force]
    /\ UNCHANGED <<modalData, timers, heap, views>>

GetModal(id) ==
    /\ last' = [op |-> "getModal", id |-> id, ret |-> getModal(modalStack, id)]
    /\ UNCHANGED <<modalStack, modalData, timers, heap, views>>

GetOpenedModals ==
    /\ last' = [op |-> "getOpenedModals",
                ret |-> getOpenedModals(modalStack, visible)]
    /\ UNCHANGED <<modalStack, modalData, timers, heap, views>>

GetHigherIndex ==
    /\ last' = [op |-> "getHigherIndex",
                ret |-> getHigherIndex(modalStack, visible, layerPosition)]
    /\ UNCHANGED <<modalStack, modalData, timers, heap, views>>

GetModalStackCount ==
    /\ last' = [op |-> "getModalStackCount",
                ret |-> getModalStackCount(modalStack)]
    /\ UNCHANGED <<modalStack, modalData, timers, heap, views>>

RemoveModal(id) ==
    /\ modalStack' = removeModal(modalStack, id)
    /\ last' = [op |-> "removeModal", id |-> id]
    /\ UNCHANGED <<modalData, timers, heap, views>>

SetModalData(data, id) ==
    LET r == setModalData(modalStack, modalData, data, id)
    IN  /\ Len(modalData) + Len(timers) + Len(r.scheduled) <= MaxData
        /\ timers' = timers \o r.scheduled
        /\ last' = [op |-> "setModalData", data |-> data, id |-> id,
                    ret |-> r.ret]
        /\ UNCHANGED <<modalStack, modalData, heap, views>>

RunTimer ==
    /\ timers # << >>
    /\ LET t == Head(timers)
           r == timerCallback(modalData, t)
       IN  /\ modalData' = r.modalData
           /\ last' = [op |-> "timer", kind |-> t.kind, data |-> t.data,
                       id |-> t.id, threw |-> r.threw]
    /\ timers' = Tail(timers)
    /\ UNCHANGED <<modalStack, heap, views>>

GetModalData(id) ==
    /\ last' = [op |-> "getModalData", id |-> id,
                ret |-> getModalData(modalData, id)]
    /\ UNCHANGED <<modalStack, modalData, timers, heap, views>>

ResetModalData(id) ==
    /\ modalData' = resetModalData(modalData, id)
    /\ last' = [op |-> "resetModalData", id |-> id]
    /\ UNCHANGED <<modalStack, timers, heap, views>>

\* resetAllModalData assigning [] to both arrays.
ResetAllModalDataAndStack ==
    /\ modalData' = resetAllModalData(modalData)
    /\ modalStack' = << >>
    /\ dataView' = IF dataView.state = "live"
                   THEN [state |-> "stale", arr |-> modalData]
                   ELSE dataView
    /\ last' = [op |-> "resetAllModalData", dropped |-> Len(modalData)]
    /\ UNCHANGED <<timers, heap, stackView>>

ResetAllModalData ==
    /\ modalData' = resetAllModalData(modalData)
    /\ dataView' = IF dataView.state = "live"
                   THEN [state |-> "stale", arr |-> modalData]
                   ELSE dataView
    /\ last' = [op |-> "resetAllModalData", dropped |-> Len(modalData)]
    /\ UNCHANGED <<modalStack, timers, heap, stackView>>

\* getModalStack / getAllModalData return the array itself; `keep` says
\* whether the caller holds on to the reference.
GetModalStack(keep) ==
    /\ stackView' = IF keep THEN [state |-> "live"] ELSE stackView
    /\ last' = [op |-> "getModalStack", ret |-> getModalStack(modalStack)]
    /\ UNCHANGED <<modalStack, modalData, timers, heap, dataView>>

GetAllModalData(keep) ==
    /\ dataView' = IF keep THEN [state |-> "live"] ELSE dataView
    /\ last' = [op |-> "getAllModalData", ret |-> getAllModalData(modalData)]
    /\ UNCHANGED <<modalStack, modalData, timers, heap, stackView>>

\* The UI layer opens or closes a modal, or moves it to another layer.
SetVisible(h, b) ==
    /\ visible[h] # b
    /\ visible' = [visible EXCEPT ![h] = b]
    /\ last' = [op |-> "setVisible", modal |-> h]
    /\ UNCHANGED <<modalStack, modalData, timers, layerPosition, views>>

SetLayerPosition(h, n) ==
    /\ layerPosition[h] # n
    /\ layerPosition' = [layerPosition EXCEPT ![h] = n]
    /\ last' = [op |-> "setLayerPosition", modal |-> h]
    /\ UNCHANGED <<modalStack, modalData, timers, visible, views>>

\* -------------------------------------------------------------- specifications
Registration ==
    \/ \E id \in Ids, h \in Handles, force \in BOOLEAN : AddModal(id, h, force)
    \/ \E id \in Ids : RemoveModal(id)

StackQueries ==
    \/ \E id \in Ids : GetModal(id)
    \/ GetOpenedModals
    \/ GetHigherIndex
    \/ GetModalStackCount
    \/ GetModalStack(FALSE)

DataOperations ==
    \/ \E data \in DataVals, id \in Ids : SetModalData(data, id)
    \/ RunTimer
    \/ \E id \in Ids : GetModalData(id)
    \/ \E id \in Ids : ResetModalData(id)
    \/ ResetAllModalData
    \/ GetAllModalData(FALSE)

UiLayer ==
    \/ \E h \in Handles, b \in BOOLEAN : SetVisible(h, b)
    \/ \E h \in Handles, n \in LayerVals : SetLayerPosition(h, n)

\* The whole service.  Its state space is the product of the two halves
\* below, which share only modalStack: the modalStack operations with the UI
\* layer (SpecStack), and registration with the modalData operations
\* (SpecData).  The properties are checked on the halves.
Next == Registration \/ StackQueries \/ DataOperations \/ UiLayer

Spec == Init /\ [][Next]_vars

NextStack == Registration \/ StackQueries \/ UiLayer
SpecStack == Init /\ [][NextStack]_vars

\* The data operations never read an entry's modal: one handle is enough here.
RegistrationOfOne ==
    \/ \E id \in Ids, force \in BOOLEAN :
          /\ force \/ Len(modalStack) < MaxRegistered
          /\ AddModal(id, CHOOSE h \in Handles : TRUE, force)
    \/ \E id \in Ids : RemoveModal(id)

NextData == RegistrationOfOne \/ DataOperations
SpecData == Init /\ [][NextData]_vars

\* The layer computation on three modals.  getOpenedModals and getHigherIndex
\* never read an entry's id: one id is enough here.
LayerHandles == Handles \cup {"h3"}

InitLayers ==
    /\ modalStack = << >>
    /\ modalData = << >>
    /\ timers = << >>
    /\ visible = [h \in LayerHandles |-> FALSE]
    /\ layerPosition = [h \in LayerHandles |-> BaseLayer]
    /\ last = [op |-> "new"]
    /\ stackView = [state |-> "none"]
    /\ dataView = [state |-> "none"]

NextLayers ==
    \/ \E h \in LayerHandles, force \in BOOLEAN :
          AddModal(CHOOSE id \in Ids : TRUE, h, force)
    \/ RemoveModal(CHOOSE id \in Ids : TRUE)
    \/ GetOpenedModals
    \/ GetHigherIndex
    \/ \E h \in LayerHandles, b \in BOOLEAN : SetVisible(h, b)
    \/ \E h \in LayerHandles, n \in LayerVals : SetLayerPosition(h, n)

SpecLayers == InitLayers /\ [][NextLayers]_vars

\* Registration and the modalData operations, with callers that may hold on
\* to the arrays getModalStack and getAllModalData hand out.
NextViews ==
    \/ RegistrationOfOne
    \/ \E data \in DataVals, id \in Ids : SetModalData(data, id)
    \/ RunTimer
    \/ \E id \in Ids : ResetModalData(id)
    \/ ResetAllModalData
    \/ \E keep \in BOOLEAN : GetModalStack(keep)
    \/ \E keep \in BOOLEAN : GetAllModalData(keep)

SpecViews == Init /\ [][NextViews]_vars

\* Every operation of the service, on one modal handle that the UI layer
\* opens and closes.
UiLayerOfOne ==
    \E b \in BOOLEAN : SetVisible(CHOOSE h \in Handles : TRUE, b)

NextOfOne == RegistrationOfOne \/ StackQueries \/ DataOperations \/ UiLayerOfOne
SpecOfOne == Init /\ [][NextOfOne]_vars

\* ---------------------------------------------------------------- the claims
\* C1: over addModal and removeModal calls getModalStackCount() is the number
\* of entries appended minus the number removed: a removeModal(id) lowers it
\* by the number of entries whose id is id, an addModal without force raises
\* it by one, an addModal with force on a registered id leaves it alone.
C1_CountIsAppendedMinusRemoved ==
    [][\A id \in Ids :
          LET before == getModalStackCount(modalStack)
              after == getModalStackCount(modalStack')
              k == Cardinality({i \in 1..Len(modalStack) : modalStack[i].id = id})
          IN  /\ (last'.op = "removeModal" /\ last'.id = id) => after = before - k
              /\ (last'.op = "addModal" /\ last'.id = id /\ ~last'.force)
                    => after = before + 1
              /\ (last'.op = "addModal" /\ last'.id = id /\ last'.force /\ k > 0)
                    => after = before]_vars

\* C2: removeModal(id) deletes every entry whose id is id and keeps the others
\* in their order, so that getModal(id) then reports null.
C2_RemoveModalDeletesEveryMatch ==
    [][\A id \in Ids :
          (last'.op = "removeModal" /\ last'.id = id)
             => /\ modalStack' = SelectSeq(modalStack, LAMBDA o : o.id # id)
                /\ getModal(modalStack', id) = Null]_vars

\* C3: addModal(e, true) on a stack that holds e.id keeps the count and puts
\* e.modal into one entry of that id, at its position, every other entry
\* staying as it was; addModal(e) without force raises the count by one, also
\* when e.id is registered already.
C3_ForceOverwritesInPlace ==
    [][\A id \in Ids, h \in Handles :
          LET n == Len(modalStack)
          IN  /\ (last' = [op |-> "addModal", id |-> id, modal |-> h, force |-> TRUE]
                  /\ \E i \in 1..n : modalStack[i].id = id)
                    => /\ getModalStackCount(modalStack') = n
                       /\ \E i \in 1..n :
                             /\ modalStack[i].id = id
                             /\ modalStack'[i] = [id |-> id, modal |-> h]
                             /\ \A j \in (1..n) \ {i} : modalStack'[j] = modalStack[j]
              /\ last' = [op |-> "addModal", id |-> id, modal |-> h, force |-> FALSE]
                    => getModalStackCount(modalStack') = n + 1]_vars

\* A forced addModal has put its modal into the first of two entries of its id
\* and left the second, which holds another modal, alone.
C3_Witness ==
    /\ last.op = "addModal" /\ last.force
    /\ Len(modalStack) >= 2
    /\ modalStack[1] = [id |-> last.id, modal |-> last.modal]
    /\ modalStack[2].id = last.id
    /\ modalStack[2].modal # last.modal

\* C4: addModal(e, true) on a stack that does not hold e.id appends e: the
\* count grows by one, e is the last entry and getModal(e.id) finds it.
C4_ForceAppendsNewId ==
    [][\A id \in Ids, h \in Handles :
          (last' = [op |-> "addModal", id |-> id, modal |-> h, force |-> TRUE]
           /\ \A i \in 1..Len(modalStack) : modalStack[i].id # id)
             => /\ getModalStackCount(modalStack') = getModalStackCount(modalStack) + 1
                /\ modalStack'[Len(modalStack')] = [id |-> id, modal |-> h]
                /\ getModal(modalStack', id) # Null]_vars

\* C5: a getModalData(m) issued right after a deferred write of data d for m
\* was applied returns d, and after a write for an id that had data already
\* modalData holds exactly one entry for m.
C5_GetReturnsWrittenData ==
    [][\A id \in Ids :
          (/\ last.op = "timer" /\ last.id = id /\ ~last.threw
           /\ last'.op = "getModalData" /\ last'.id = id)
             => /\ last'.ret = last.data
                /\ last.kind = "overwrite"
                      => Cardinality({i \in 1..Len(modalData) :
                                         modalData[i].id = id}) = 1]_vars

\* C6: setModalData(data, id) with no modalStack entry of that id returns false,
\* schedules no callback and leaves modalData as it is; with such an entry it
\* returns true.
C6_UnknownIdIsRefused ==
    [][\A id \in Ids :
          (last'.op = "setModalData" /\ last'.id = id)
             => IF \E i \in 1..Len(modalStack) : modalStack[i].id = id
                THEN last'.ret = True
                ELSE last'.ret = False /\ timers' = timers /\ modalData' = modalData]_vars

\* setModalData has returned false for an id that is not registered, while a
\* callback of another id is pending.
C6_Witness ==
    /\ last.op = "setModalData" /\ last.ret = False
    /\ \A i \in 1..Len(modalStack) : modalStack[i].id # last.id
    /\ timers # << >>

\* C7: setModalData itself writes nothing, and every callback it scheduled
\* runs to completion and leaves its data under its id in modalData, whatever
\* ran in between.
C7_ScheduledWriteIsApplied ==
    [][/\ last'.op = "setModalData" => modalData' = modalData
       /\ last'.op = "timer"
             => /\ ~last'.threw
                /\ \E i \in 1..Len(modalData') :
                      modalData'[i] = [data |-> last'.data, id |-> last'.id]]_vars

\* C8: resetModalData(id) removes the modalData entry of that id, so that
\* getModalData(id) then gives false, and keeps every other entry.
C8_ResetModalDataRemoves ==
    [][\A id \in Ids :
          (last'.op = "resetModalData" /\ last'.id = id)
             => /\ modalData' = SelectSeq(modalData, LAMBDA o : o.id # id)
                /\ getModalData(modalData', id) = False]_vars

\* C9: right after resetAllModalData() getAllModalData() is empty and
\* getModalData(id) is false for every id.
C9_ResetAllEmpties ==
    last.op = "resetAllModalData"
       => /\ getAllModalData(modalData) = << >>
          /\ \A id \in Ids : getModalData(modalData, id) = False

\* resetAllModalData has run on a modalData that held entries.
C9_Witness ==
    last.op = "resetAllModalData" /\ last.dropped > 0

\* C10: getOpenedModals() is the subsequence of modalStack at the positions
\* whose modal is visible: as long as there are such positions, and its k-th
\* entry is the entry at the k-th of them.
C10_OpenedAreTheVisibleInOrder ==
    last.op = "getOpenedModals"
       => LET open == {i \in 1..Len(modalStack) : visible[modalStack[i].modal]}
              ret == last.ret
          IN  /\ Len(ret) = Cardinality(open)
              /\ \E f \in [1..Len(ret) -> open] :
                    /\ \A k \in 1..Len(ret) : ret[k] = modalStack[f[k]]
                    /\ \A k, l \in 1..Len(ret) : k < l => f[k] < f[l]

\* getOpenedModals has returned two equal entries and left out a hidden one
\* that stands between them.
C10_Witness ==
    /\ last.op = "getOpenedModals"
    /\ Len(modalStack) = 3 /\ Len(last.ret) = 2
    /\ last.ret[1] = last.ret[2]
    /\ ~visible[modalStack[2].modal]

C12_NoOpenModalGivesDefinedResult ==
    (last.op = "getHigherIndex"
     /\ \A i \in 1..Len(modalStack) : ~visible[modalStack[i].modal])
       => last.ret # NegInfinity /\ last.ret.t \in {"number", "EmptyStack"}

\* C13: getModal(id) returns the modal of the first entry whose id is id, and
\* null when no entry has that id.
C13_GetModalReturnsFirstModal ==
    last.op = "getModal"
       => LET hits == {i \in 1..Len(modalStack) : modalStack[i].id = last.id}
          IN  IF hits = {}
              THEN last.ret = Null
              ELSE \E i \in hits :
                      /\ \A j \in hits : i <= j
                      /\ last.ret = Modal(modalStack[i].modal)

\* C14: getModalData(id) returns the data stored in the modalData entry of
\* that id, not the entry, and false when there is no such entry.
C14_GetModalDataReturnsData ==
    last.op = "getModalData"
       => LET hits == {i \in 1..Len(modalData) : modalData[i].id = last.id}
          IN  IF hits = {}
              THEN last.ret = False
              ELSE \E i \in hits : last.ret = modalData[i].data

\* C15: an array obtained from getModalStack() or getAllModalData() shows the
\* registry's current contents after any later calls.
C15_ViewsAreLive ==
    /\ stackView.state # "none"
          => viewContents(stackView, modalStack) = getModalStack(modalStack)
    /\ dataView.state # "none"
          => viewContents(dataView, modalData) = getAllModalData(modalData)

\* C16: the data association can dangle: removing a registered modal that has
\* data leaves a modalData entry whose id no modalStack entry has.
C16_RemovalLeavesDataDangling ==
    [][\A id \in Ids :
          (/\ last'.op = "removeModal" /\ last'.id = id
           /\ \E i \in 1..Len(modalStack) : modalStack[i].id = id
           /\ \E i \in 1..Len(modalData) : modalData[i].id = id)
             => \E i \in 1..Len(modalData') :
                   \A j \in 1..Len(modalStack') :
                      modalStack'[j].id # modalData'[i].id]_vars

\* C16, what the service does instead: every modalData entry, and every
\* pending write, carries the id of a modalStack entry.
C16_DataNeverDangles ==
    /\ \A i \in 1..Len(modalData) : found(modalStack, modalData[i].id)
    /\ \A i \in 1..Len(timers) : found(modalStack, timers[i].id)

\* C17: modalData holds at most one entry for each id, in every state.
C17_OneEntryPerId ==
    \A id \in Ids :
       Cardinality({i \in 1..Len(modalData) : modalData[i].id = id}) <= 1

\* C18: setModalData, its callback, resetModalData and resetAllModalData leave
\* modalStack alone; addModal and removeModal leave modalData alone; the
\* queries leave both arrays and every modal's visible and layerPosition alone.
C18_CollectionsAreIndependent ==
    [][/\ last'.op \in {"setModalData", "timer", "resetModalData",
                        "resetAllModalData"}
             => modalStack' = modalStack
       /\ last'.op \in {"addModal", "removeModal"} => modalData' = modalData
       /\ last'.op \in {"getModal", "getModalStack", "getOpenedModals",
                        "getHigherIndex", "getModalStackCount", "getModalData",
                        "getAllModalData"}
             => /\ modalStack' = modalStack
                /\ modalData' = modalData
                /\ visible' = visible
                /\ layerPosition' = layerPosition]_vars

\* resetAllModalData has dropped entries of modalData while a modal is
\* registered and open.
C18_Witness ==
    /\ last.op = "resetAllModalData" /\ last.dropped > 0
    /\ modalStack # << >>
    /\ visible[modalStack[1].modal]

====
